---- MODULE Spec2Model ----
(***************************************************************************)
(* Model of scripts/validate_structure.py: the IaC structure validator.    *)
(*                                                                         *)
(* A source tree is a set of files under a root; the text of a file is a   *)
(* sequence of lexical tokens, the newline being one of them.  A token is  *)
(* a record [k, v]: k is the lexical class the validator's regular         *)
(* expressions and substring tests distinguish, v the identifier or        *)
(* literal the token carries.  A message is the tuple of the parts the     *)
(* f-string concatenates.                                                  *)
(***************************************************************************)
EXTENDS Integers, Sequences, FiniteSets, TLC

VARIABLES
    tree,        \* the source tree on disk (the validator only reads it)
    args,        \* parsed command line: [report]
    pc,          \* position of main / run_all_checks
    results,     \* validator.results
    tf_files,    \* validator.tf_files
    executed,    \* rule families entered so far in this run, in order
    console,     \* what was printed (stdout and stderr), in order
    reportFile,  \* what this invocation wrote to the report path: <<>> or <<report>>
    all_passed,  \* main's all_passed: <<>> until run_all_checks returns, then <<value>>
    exitCode,    \* value returned by main; NoExit while running
    run,         \* 1 for the first invocation, 2 for the one after it
    edit,        \* what was done to the tree between the two invocations
    prev         \* outcome of the first invocation, kept for comparison

vars == <<tree, args, pc, results, tf_files, executed, console, reportFile,
          all_passed, exitCode, run, edit, prev>>

----------------------------------------------------------------------------
(* Bounds of the explored inputs *)

MaxLen == 4      \* tokens (newlines included) in a generated main.tf
MaxBody == 2     \* items in the body of a generated variable block
MaxLines == 4    \* lines of a generated main.tf holding security rules

----------------------------------------------------------------------------
(* Tokens and text *)

Tok(k, v) == [k |-> k, v |-> v]

NL == Tok("nl", "")

RECURSIVE Concat(_)
Concat(ss) == IF ss = <<>> THEN <<>> ELSE Head(ss) \o Concat(Tail(ss))

RECURSIVE SelectFirst(_, _, _)
\* least index i >= from with s[i] in the set ks of token classes, or 0
SelectFirst(s, from, ks) ==
    IF from > Len(s) THEN 0
    ELSE IF s[from].k \in ks THEN from
    ELSE SelectFirst(s, from + 1, ks)

RECURSIVE SplitLines(_)
\* str.split('\n'): n newlines give n + 1 lines, the empty text gives <<<<>>>>
SplitLines(content) ==
    LET i == SelectFirst(content, 1, {"nl"})
    IN  IF i = 0 THEN <<content>>
        ELSE <<SubSeq(content, 1, i - 1)>>
             \o SplitLines(SubSeq(content, i + 1, Len(content)))

HasKind(s, ks) == \E i \in 1..Len(s) : s[i].k \in ks

----------------------------------------------------------------------------
(* Files *)

TfFiles == {"main.tf", "variables.tf", "outputs.tf", "versions.tf",
            "provider.tf", "locals_constants.tf"}

OtherFiles == {"README.md", ".gitignore", "terraform.tfvars.example"}

Files == TfFiles \cup OtherFiles

\* Path.name of a path relative to the root (every explored file lies
\* directly under the root)
BaseName(f) == f

\* (self.path / name).exists()
Exists(t, name) == name \in t.present

RECURSIVE SelectSeq2(_, _)
\* the members of the sequence s that lie in the set S, in the order of s
SelectSeq2(s, S) ==
    IF s = <<>> THEN <<>>
    ELSE IF Head(s) \in S THEN <<Head(s)>> \o SelectSeq2(Tail(s), S)
    ELSE SelectSeq2(Tail(s), S)

\* list(self.path.glob("**/*.tf")): the .tf files present, in directory order
Glob(t) == SelectSeq2(t.order, t.present \cap TfFiles)

----------------------------------------------------------------------------
(* ValidationResult *)

ValidationResult(check_name, passed, message, file_path, line_number) ==
    [check_name |-> check_name, passed |-> passed, message |-> message,
     file_path |-> file_path, line_number |-> line_number]

\* outcome of a rule family: the results appended, and whether it returned
\* (ok) or a read raised before it could
Returned(res) == [res |-> res, ok |-> TRUE]
Raised(res) == [res |-> res, ok |-> FALSE]

RECURSIVE ScanFiles(_, _, _, _)
\* "for tf_file in self.tf_files": files whose name is in skip are passed
\* over before they are read; read_text raises on an unreadable file; the
\* results of the files read before it stay appended
ScanFiles(t, files, skip, perFile) ==
    IF files = <<>> THEN Returned(<<>>)
    ELSE LET f == Head(files)
         IN  IF BaseName(f) \in skip
               THEN ScanFiles(t, Tail(files), skip, perFile)
             ELSE IF f \in t.unreadable THEN Raised(<<>>)
             ELSE LET rest == ScanFiles(t, Tail(files), skip, perFile)
                  IN  [res |-> perFile[f] \o rest.res, ok |-> rest.ok]

\* the results of every line of a file, line numbers counted from 1
PerLine(t, f, LineResults(_, _)) ==
    LET lines == SplitLines(t.content[f])
    IN  Concat([i \in 1..Len(lines) |-> LineResults(lines[i], i)])

----------------------------------------------------------------------------
(* check_file_structure *)

required_files == <<
    <<"README.md", "Project documentation">>,
    <<"variables.tf", "Variable declarations">>,
    <<"outputs.tf", "Output definitions">>,
    <<"versions.tf", "Provider versions (or provider.tf)">>,
    <<".gitignore", "Git exclusions">> >>

RequiredFileName(filename) ==
    CASE filename = "README.md" -> "Required File: README.md"
      [] filename = "variables.tf" -> "Required File: variables.tf"
      [] filename = "outputs.tf" -> "Required File: outputs.tf"
      [] filename = "versions.tf" -> "Required File: versions.tf"
      [] filename = ".gitignore" -> "Required File: .gitignore"

\* the required-file check without the provider.tf alternate
RequiredFileResultNoAlternate(t, entry) ==
    LET filename == entry[1]
        description == entry[2]
        file_exists == Exists(t, filename)
    IN  ValidationResult(RequiredFileName(filename), file_exists,
            <<description, IF file_exists THEN "found" ELSE "MISSING">>,
            "", 0)

RequiredFileResult(t, entry) ==
    LET filename == entry[1]
        description == entry[2]
        file_exists ==
            IF filename = "versions.tf" /\ ~Exists(t, filename)
              THEN Exists(t, "provider.tf")
              ELSE Exists(t, filename)
    IN  ValidationResult(RequiredFileName(filename), file_exists,
            <<description, IF file_exists THEN "found" ELSE "MISSING">>,
            "", 0)

check_file_structure(t) ==
    LET constants_file == Exists(t, "locals_constants.tf")
    IN  Returned(
          [i \in 1..Len(required_files) |->
              RequiredFileResult(t, required_files[i])]
          \o <<ValidationResult("Constants File", constants_file,
                 IF constants_file
                   THEN <<"locals_constants.tf found">>
                   ELSE <<"locals_constants.tf MISSING - magic numbers may be present">>,
                 "", 0)>>)

----------------------------------------------------------------------------
(* check_magic_numbers *)

\* the token class each pattern matches, with the pattern's label
magic_patterns == <<
    <<"port", "Port number">>,
    <<"zone", "Availability zone">>,
    <<"wire_ip", "Azure Wire Server IP">>,
    <<"disk_size_gb", "Disk size">> >>

\* line.strip().startswith('#')
IsCommentLine(line) == Len(line) > 0 /\ line[1].k = "hash"

\* the tokens of a line a pattern matches (re.finditer), left to right
RECURSIVE Matches(_, _)
Matches(line, k) ==
    IF line = <<>> THEN <<>>
    ELSE IF Head(line).k = k THEN <<Head(line)>> \o Matches(Tail(line), k)
    ELSE Matches(Tail(line), k)

\* 'local.' in line
HasLocalRef(line) == HasKind(line, {"local"})

\* the rule without its 'local.' exclusion
MagicPatternResultsUnsuppressed(line, pat, f, i) ==
    LET ms == Matches(line, pat[1])
    IN  [j \in 1..Len(ms) |->
            ValidationResult("Magic Number", FALSE,
                <<pat[2], "hardcoded:", ms[j].k, ms[j].v,
                  "- Should be in locals_constants.tf">>,
                f, i)]

MagicPatternResults(line, pat, f, i) ==
    LET ms == Matches(line, pat[1])
    IN  IF HasLocalRef(line) THEN <<>>
        ELSE [j \in 1..Len(ms) |->
                ValidationResult("Magic Number", FALSE,
                    <<pat[2], "hardcoded:", ms[j].k, ms[j].v,
                      "- Should be in locals_constants.tf">>,
                    f, i)]

MagicLineResults(line, f, i) ==
    IF IsCommentLine(line) THEN <<>>
    ELSE Concat([p \in 1..Len(magic_patterns) |->
                    MagicPatternResults(line, magic_patterns[p], f, i)])

check_magic_numbers(t, files) ==
    LET one(f) == LET LR(line, i) == MagicLineResults(line, f, i)
                  IN  PerLine(t, f, LR)
    IN  ScanFiles(t, files, {"locals_constants.tf"},
                  [f \in Files |-> one(f)])

----------------------------------------------------------------------------
(* check_string_booleans *)

StringBooleanLineResults(line, f, i) ==
    (IF HasKind(line, {"contains_yes_no"})
       THEN <<ValidationResult("String Boolean", FALSE,
                <<"String boolean detected - Use type = bool instead of yes/no">>,
                f, i)>>
       ELSE <<>>)
    \o
    (IF HasKind(line, {"contains_true_false"})
       THEN <<ValidationResult("String Boolean", FALSE,
                <<"String boolean detected - Use type = bool instead of true/false strings">>,
                f, i)>>
       ELSE <<>>)

check_string_booleans(t, files) ==
    LET one(f) == LET LR(line, i) == StringBooleanLineResults(line, f, i)
                  IN  PerLine(t, f, LR)
    IN  ScanFiles(t, files, {}, [f \in Files |-> one(f)])

----------------------------------------------------------------------------
(* check_naming_conventions *)

\* lexical facts about the identifiers of the explored inputs
\* re.search(r'[A-Z]', name)
HasUpper(name) == name \in {"myVar", "ID", "MainRG"}

\* len(name)
NameLen(name) ==
    CASE name = "ID" -> 2
      [] name = "db" -> 2
      [] name = "myVar" -> 5
      [] name = "my_var" -> 6
      [] name = "region" -> 6
      [] name = "MainRG" -> 6
      [] name = "api_key" -> 7
      [] name = "db_password" -> 11
      [] OTHER -> 4

\* re.findall(pattern, content): the identifiers of the tokens of class k
RECURSIVE Declared(_, _)
Declared(content, k) ==
    IF content = <<>> THEN <<>>
    ELSE IF Head(content).k = k
      THEN <<Head(content).v>> \o Declared(Tail(content), k)
    ELSE Declared(Tail(content), k)

\* the variable rule without its length test
VariableNamingResultsCaseOnly(var_name, f) ==
    IF HasUpper(var_name)
      THEN <<ValidationResult("Variable Naming", FALSE,
               <<"Variable", var_name, "not in snake_case">>, f, 0)>>
      ELSE <<>>

VariableNamingResults(var_name, f) ==
    (IF HasUpper(var_name)
       THEN <<ValidationResult("Variable Naming", FALSE,
                <<"Variable", var_name, "not in snake_case">>, f, 0)>>
       ELSE <<>>)
    \o
    (IF NameLen(var_name) < 3
       THEN <<ValidationResult("Variable Naming", FALSE,
                <<"Variable", var_name, "too short (< 3 chars)">>, f, 0)>>
       ELSE <<>>)

ResourceNamingResults(res_name, f) ==
    IF HasUpper(res_name)
      THEN <<ValidationResult("Resource Naming", FALSE,
               <<"Resource", res_name, "not in snake_case">>, f, 0)>>
      ELSE <<>>

check_naming_conventions(t, files) ==
    LET varRes(f) == LET names == Declared(t.content[f], "variable")
                   IN  Concat([i \in 1..Len(names) |->
                                  VariableNamingResults(names[i], f)])
        resRes(f) == LET names == Declared(t.content[f], "resource")
                   IN  Concat([i \in 1..Len(names) |->
                                  ResourceNamingResults(names[i], f)])
        first == ScanFiles(t, files, TfFiles \ {"variables.tf"},
                           [f \in Files |-> varRes(f)])
        second == ScanFiles(t, files, {}, [f \in Files |-> resRes(f)])
    IN  IF first.ok THEN [res |-> first.res \o second.res, ok |-> second.ok]
        ELSE first

----------------------------------------------------------------------------
(* check_documentation *)

\* str.lower() on the headings of the explored inputs
Lower(s) ==
    CASE s = "Prerequisites" -> "prerequisites"
      [] s = "PREREQUISITES" -> "prerequisites"
      [] s = "Quick Start" -> "quick start"
      [] s = "Getting Started" -> "getting started"
      [] s = "Configuration" -> "configuration"
      [] OTHER -> s

required_sections == <<
    <<"prerequisites", "README: Prerequisites section",
      "Prerequisites section">>,
    <<"quick start", "README: Quick Start or Getting Started section",
      "Quick Start or Getting Started section">>,
    <<"configuration", "README: Configuration section",
      "Configuration section">> >>

\* keyword in content, content being the lowered text
KeywordIn(keyword, content) ==
    \E i \in 1..Len(content) : Lower(content[i].v) = keyword

SectionResult(content, sec) ==
    LET found == KeywordIn(sec[1], content)
    IN  ValidationResult(sec[2], found,
            <<sec[3], IF found THEN "found" ELSE "MISSING in README.md">>,
            "", 0)

DocumentationResults(t) ==
    LET content == t.content["README.md"]
        example == Exists(t, "terraform.tfvars.example")
    IN  [i \in 1..Len(required_sections) |->
            SectionResult(content, required_sections[i])]
        \o <<ValidationResult("Example Configuration", example,
               <<"terraform.tfvars.example",
                 IF example THEN "found" ELSE "MISSING">>,
               "", 0)>>

\* check_documentation without the exists() guard: reading a missing
\* README.md raises
check_documentation_unguarded(t) ==
    IF ~Exists(t, "README.md") \/ "README.md" \in t.unreadable
      THEN Raised(<<>>)
      ELSE Returned(DocumentationResults(t))

\* check_documentation returning too late: the example file is still
\* checked when README.md is missing
check_documentation_late_return(t) ==
    IF ~Exists(t, "README.md")
      THEN Returned(<<ValidationResult("README.md", FALSE,
                        <<"README.md not found">>, "", 0),
                      ValidationResult("Example Configuration",
                        Exists(t, "terraform.tfvars.example"),
                        <<"terraform.tfvars.example",
                          IF Exists(t, "terraform.tfvars.example")
                            THEN "found" ELSE "MISSING">>,
                        "", 0)>>)
    ELSE IF "README.md" \in t.unreadable THEN Raised(<<>>)
    ELSE Returned(DocumentationResults(t))

check_documentation(t) ==
    IF ~Exists(t, "README.md")
      THEN Returned(<<ValidationResult("README.md", FALSE,
                        <<"README.md not found">>, "", 0)>>)
    ELSE IF "README.md" \in t.unreadable THEN Raised(<<>>)
    ELSE Returned(DocumentationResults(t))

----------------------------------------------------------------------------
(* check_security_standards *)

\* characters before the flagged line in which "allow" is looked for
LookbackWindow == 200

\* len() of the text of a token
Width(tok) ==
    CASE tok.k = "nl" -> 1
      [] tok.k = "hash" -> 2
      [] tok.k = "filler" -> 200
      [] tok.k = "access_allow" -> 17
      [] tok.k = "access_deny" -> 16
      [] tok.k = "source_address_prefix_any" -> 28
      [] OTHER -> 12

RECURSIVE Offset(_, _)
\* number of characters of content before its token p
Offset(content, p) ==
    IF p <= 1 THEN 0 ELSE Offset(content, p - 1) + Width(content[p - 1])

RECURSIVE Find(_, _, _)
\* content.find(line): the first place from p on where the text of the line
\* occurs in content (wherever that is), 0 when it does not occur
Find(content, line, p) ==
    IF p + Len(line) - 1 > Len(content) THEN 0
    ELSE IF SubSeq(content, p, p + Len(line) - 1) = line THEN p
    ELSE Find(content, line, p + 1)

\* 'allow' in text.lower()
ContainsAllow(tok) == tok.k = "access_allow" \/ tok.v \in {"allow_ssh", "Allow"}

\* 'allow' in content[max(0, content.find(line) - 200):content.find(line)].lower()
AllowBefore(content, line) ==
    LET p == Find(content, line, 1)
        at == Offset(content, p)
    IN  \E q \in 1..(p - 1) :
            /\ ContainsAllow(content[q])
            /\ Offset(content, q) >= at - LookbackWindow

\* re.search(r'(password|secret|key)\s*=\s*"[^$]', line, re.IGNORECASE)
HasSecretLiteral(line) == HasKind(line, {"secret_literal"})

\* re.search(r'var\.|data\.', line)
HasReference(line) == HasKind(line, {"var_ref", "data_ref"})

\* 'source_address_prefix' in line and '"*"' in line
HasWildcardSource(line) ==
    /\ HasKind(line, {"source_address_prefix_any", "source_address_prefix"})
    /\ HasKind(line, {"source_address_prefix_any", "star"})

SecurityLineResults(content, line, f, i) ==
    (IF HasSecretLiteral(line) /\ ~HasReference(line)
       THEN <<ValidationResult("Hardcoded Secret", FALSE,
                <<"Possible hardcoded secret detected - Use variables or Key Vault">>,
                f, i)>>
       ELSE <<>>)
    \o
    (IF HasWildcardSource(line) /\ AllowBefore(content, line)
       THEN <<ValidationResult("Overly Permissive Security Rule", FALSE,
                <<"Security rule allows traffic from anywhere (*) - Use specific CIDR blocks">>,
                f, i)>>
       ELSE <<>>)

\* [^"]*(?:password|secret|key)[^"]* under re.IGNORECASE, on the identifiers
\* of the explored inputs
IsSensitiveName(name) ==
    name \in {"db_password", "api_key", "client_secret", "DB_PASSWORD"}

\* '}' in the text of a token
ClosesBrace(tok) == tok.k = "close"

RECURSIVE FirstClose(_, _)
FirstClose(content, from) ==
    IF from > Len(content) THEN 0
    ELSE IF ClosesBrace(content[from]) THEN from
    ELSE FirstClose(content, from + 1)

RECURSIVE FirstHeader(_, _, _)
\* the first variable header from `from` on whose name is in names
FirstHeader(content, from, names) ==
    IF from > Len(content) THEN 0
    ELSE IF content[from].k = "variable" /\ content[from].v \in names
      THEN from
    ELSE FirstHeader(content, from + 1, names)

AllNames(content) == {content[i].v : i \in 1..Len(content)}

RECURSIVE FindAllVariables(_, _, _)
\* re.findall(r'variable\s+"(name)".*?}', content, re.DOTALL): every match
\* runs from a header to the first '}' after it, the next match is looked
\* for behind that brace; the names captured, in order
FindAllVariables(content, from, names) ==
    LET i == FirstHeader(content, from, names)
        j == FirstClose(content, i + 1)
    IN  IF i = 0 \/ j = 0 THEN <<>>
        ELSE <<content[i].v>> \o FindAllVariables(content, j + 1, names)

\* re.search(rf'variable\s+"{var_name}".*?}}', content, re.DOTALL): from the
\* first header of that name to the first '}' after it; <<>> for no match
VarBlock(content, var_name) ==
    LET i == FirstHeader(content, 1, {var_name})
        j == FirstClose(content, i + 1)
    IN  IF i = 0 \/ j = 0 THEN <<>> ELSE SubSeq(content, i, j)

\* 'sensitive' in var_block
ContainsSensitive(tok) == tok.k = "sensitive" \/ tok.v \in {"sensitive_key"}

\* 'true' in var_block
ContainsTrue(tok) == tok.v = "true" \/ tok.k = "contains_true_false"

SensitiveVariableResult(content, var_name) ==
    LET var_block == VarBlock(content, var_name)
        has_sensitive ==
            /\ \E i \in 1..Len(var_block) : ContainsSensitive(var_block[i])
            /\ \E i \in 1..Len(var_block) : ContainsTrue(var_block[i])
    IN  IF var_block = <<>> THEN <<>>
        ELSE <<ValidationResult("Sensitive Variable", has_sensitive,
                 <<"Variable", var_name,
                   IF has_sensitive THEN "is" ELSE "NOT", "marked sensitive">>,
                 "", 0)>>

SensitiveVariableResults(content) ==
    LET sensitive_vars ==
            FindAllVariables(content, 1,
                {n \in AllNames(content) : IsSensitiveName(n)})
    IN  Concat([i \in 1..Len(sensitive_vars) |->
                   SensitiveVariableResult(content, sensitive_vars[i])])

check_security_standards(t, files) ==
    LET one(f) == LET LR(line, i) ==
                          SecurityLineResults(t.content[f], line, f, i)
                  IN  PerLine(t, f, LR)
        scan == ScanFiles(t, files, {}, [f \in Files |-> one(f)])
    IN  IF ~scan.ok \/ ~Exists(t, "variables.tf") THEN scan
        ELSE IF "variables.tf" \in t.unreadable THEN Raised(scan.res)
        ELSE Returned(scan.res
                      \o SensitiveVariableResults(t.content["variables.tf"]))

----------------------------------------------------------------------------
(* check_variable_validation *)

VariableValidationResult(content, var_name) ==
    LET var_block == VarBlock(content, var_name)
        has_validation == HasKind(var_block, {"validation"})
        has_default == HasKind(var_block, {"default"})
    IN  IF var_block # <<>> /\ ~has_default /\ ~has_validation
          THEN <<ValidationResult("Variable Validation", FALSE,
                   <<"Required variable", var_name, "lacks validation block">>,
                   "variables.tf", 0)>>
          ELSE <<>>

check_variable_validation(t) ==
    IF ~Exists(t, "variables.tf") THEN Returned(<<>>)
    ELSE IF "variables.tf" \in t.unreadable THEN Raised(<<>>)
    ELSE LET content == t.content["variables.tf"]
             var_blocks == FindAllVariables(content, 1, AllNames(content))
         IN  Returned(Concat([i \in 1..Len(var_blocks) |->
                         VariableValidationResult(content, var_blocks[i])]))

----------------------------------------------------------------------------
(* check_output_organization *)

\* re.search(r'^\s*output\s+"', content, re.MULTILINE)
HasOutputDeclaration(content) ==
    LET lines == SplitLines(content)
    IN  \E i \in 1..Len(lines) :
            Len(lines[i]) > 0 /\ lines[i][1].k = "output"

StrayOutputResult(t, f) ==
    IF HasOutputDeclaration(t.content[f])
      THEN <<ValidationResult("Output Organization", FALSE,
               <<"Output found in", BaseName(f), "- should be in outputs.tf">>,
               f, 0)>>
      ELSE <<>>

\* the scan without its skip of outputs.tf itself
check_output_organization_unskipped(t, files) ==
    IF ~Exists(t, "outputs.tf")
      THEN Returned(<<ValidationResult("Output Organization", FALSE,
                        <<"outputs.tf not found - outputs may be scattered">>,
                        "", 0)>>)
      ELSE ScanFiles(t, files, {},
                     [f \in Files |-> StrayOutputResult(t, f)])

check_output_organization(t, files) ==
    IF ~Exists(t, "outputs.tf")
      THEN Returned(<<ValidationResult("Output Organization", FALSE,
                        <<"outputs.tf not found - outputs may be scattered">>,
                        "", 0)>>)
      ELSE ScanFiles(t, files, {"outputs.tf"},
                     [f \in Files |-> StrayOutputResult(t, f)])

----------------------------------------------------------------------------
(* generate_report *)

\* result.check_name.split(':')[0]
CheckType(check_name) ==
    CASE check_name \in {"Required File: README.md",
                         "Required File: variables.tf",
                         "Required File: outputs.tf",
                         "Required File: versions.tf",
                         "Required File: .gitignore"} -> "Required File"
      [] check_name \in {"README: Prerequisites section",
                         "README: Quick Start or Getting Started section",
                         "README: Configuration section"} -> "README"
      [] OTHER -> check_name

\* sorted(by_type.items()): the check types in the order of Python's string
\* comparison
SortedTypes == <<"Constants File", "Example Configuration", "File Discovery",
                 "Hardcoded Secret", "Magic Number", "Output Organization",
                 "Overly Permissive Security Rule", "README", "README.md",
                 "Required File", "Resource Naming", "Sensitive Variable",
                 "String Boolean", "Variable Naming", "Variable Validation">>

RECURSIVE OfType(_, _)
OfType(rs, type) ==
    IF rs = <<>> THEN <<>>
    ELSE IF CheckType(Head(rs).check_name) = type
      THEN <<Head(rs)>> \o OfType(Tail(rs), type)
    ELSE OfType(Tail(rs), type)

RECURSIVE CountPassed(_)
\* sum(1 for r in results if r.passed)
CountPassed(rs) ==
    IF rs = <<>> THEN 0
    ELSE (IF Head(rs).passed THEN 1 ELSE 0) + CountPassed(Tail(rs))

RECURSIVE Failures(_)
\* the failing results, in the order of the sequence
Failures(rs) ==
    IF rs = <<>> THEN <<>>
    ELSE IF Head(rs).passed THEN Failures(Tail(rs))
    ELSE <<Head(rs)>> \o Failures(Tail(rs))

\* by_type, sorted: one section per check type that has results, the
\* results of a section in the order they were recorded
Sections(rs) ==
    Concat([i \in 1..Len(SortedTypes) |->
              LET g == OfType(rs, SortedTypes[i])
              IN  IF g = <<>> THEN <<>>
                  ELSE <<[type |-> SortedTypes[i], entries |-> g]>>])

\* a report that lists the failing results only
ReportOfFailures(rs) ==
    [total |-> Len(rs), passed |-> CountPassed(rs),
     failed |-> Len(Failures(rs)),
     pass_rate |-> (CountPassed(rs) * 1000) \div Len(rs),
     sections |-> Sections(Failures(rs))]

\* the markdown text: the summary block (the rate in tenths of a percent)
\* and the sections; the Date line is left out
Report(rs) ==
    [total |-> Len(rs), passed |-> CountPassed(rs),
     failed |-> Len(Failures(rs)),
     pass_rate |-> (CountPassed(rs) * 1000) \div Len(rs),
     sections |-> Sections(rs)]

\* generate_report raises when the rate divides by zero or when
\* report_path.write_text fails
ReportRaises(rs, report_path) == Len(rs) = 0 \/ report_path = "unwritable"

----------------------------------------------------------------------------
(* console output *)

Line(kind, nums, res) == [kind |-> kind, nums |-> nums, res |-> res]

\* run_all_checks, "Calculate results" to the end
SummaryOutput(rs) ==
    LET total == Len(rs)
        passed == CountPassed(rs)
        failed == total - passed
        fs == Failures(rs)
    IN  <<Line("summary", <<total, passed, failed>>, <<>>)>>
        \o (IF failed > 0
              THEN <<Line("failures_header", <<>>, <<>>)>>
                   \o [i \in 1..Len(fs) |-> Line("failure", <<>>, <<fs[i]>>)]
              ELSE <<>>)

----------------------------------------------------------------------------
(* The explored source trees and command lines *)

NoExit == -1

\* directory order of the .tf files, as glob yields them
DirectoryOrder == <<"locals_constants.tf", "main.tf", "outputs.tf",
                    "provider.tf", "variables.tf", "versions.tf">>

OtherOrder == <<"versions.tf", "variables.tf", "provider.tf", "outputs.tf",
                "main.tf", "locals_constants.tf">>

Block(name, body) ==
    <<Tok("variable", name), Tok("open", "")>> \o body \o <<Tok("close", "")>>

\* a project that meets every convention
CleanContent ==
    [f \in Files |->
        CASE f = "main.tf" ->
               <<Tok("resource", "main"), NL, Tok("local", "http_port")>>
          [] f = "variables.tf" -> Block("region", <<Tok("default", "")>>)
          [] f = "outputs.tf" -> <<Tok("output", "id")>>
          [] f = "versions.tf" -> <<Tok("word", "terraform")>>
          [] f = "provider.tf" -> <<Tok("word", "provider")>>
          [] f = "locals_constants.tf" -> <<Tok("disk_size_gb", "128")>>
          [] f = "README.md" ->
               <<Tok("heading", "Prerequisites"), NL,
                 Tok("heading", "Quick Start"), NL,
                 Tok("heading", "Configuration")>>
          [] OTHER -> <<>>]

\* a project that breaks a convention of every rule family
DirtyContent ==
    [f \in Files |->
        CASE f = "main.tf" ->
               <<Tok("resource", "MainRG"), NL, Tok("port", "80"), NL,
                 Tok("access_allow", ""), NL,
                 Tok("source_address_prefix_any", ""), NL,
                 Tok("secret_literal", ""), NL,
                 Tok("output", "id")>>
          [] f = "variables.tf" ->
               Block("db_password", <<>>) \o <<NL>>
               \o Block("ID", <<Tok("contains_yes_no", "")>>)
          [] f = "README.md" -> <<Tok("heading", "Getting Started")>>
          [] OTHER -> CleanContent[f]]

\* the text of a file that is absent is never read
Tree(present, content, unreadable, order) ==
    [exists |-> TRUE, present |-> present,
     content |-> [f \in Files |-> IF f \in present THEN content[f] ELSE <<>>],
     unreadable |-> unreadable \cap present, order |-> order]

MissingRoot ==
    [exists |-> FALSE, present |-> {}, content |-> [f \in Files |-> <<>>],
     unreadable |-> {}, order |-> DirectoryOrder]

Texts(alphabet, n) == UNION {[1..k -> alphabet] : k \in 0..n}

MagicAlphabet == {NL, Tok("hash", ""), Tok("port", "80"),
                  Tok("disk_size_gb", "10"), Tok("local", "http_port")}

BodyItems == {<<Tok("sensitive", "true")>>, <<Tok("sensitive", "false")>>,
              <<Tok("nullable", "true")>>, <<Tok("default", "")>>,
              <<Tok("validation", ""), Tok("open", ""), Tok("close", "")>>,
              <<Tok("type_object", ""), Tok("open", ""), Tok("close", "")>>}

Bodies == {Concat(items) : items \in Texts(BodyItems, MaxBody)}

OtherBlock == Block("api_key", <<Tok("sensitive", "true")>>)

VariableTexts ==
    LET one == {Block(n, b) : n \in {"db_password", "region"}, b \in Bodies}
    IN  one \cup {b \o OtherBlock : b \in one} \cup {OtherBlock \o b : b \in one}

\* every subset of the files, with clean and with dirty texts
PresenceTrees ==
    {Tree(p, c, {}, DirectoryOrder) :
        p \in SUBSET Files, c \in {CleanContent, DirtyContent}}

\* the full project with one file that cannot be read
UnreadableTrees ==
    {Tree(Files, c, {f}, o) :
        c \in {CleanContent, DirtyContent},
        f \in TfFiles \cup {"README.md"},
        o \in {DirectoryOrder, OtherOrder}}

\* the full clean project but for a generated main.tf
MagicTrees ==
    {Tree(Files, [CleanContent EXCEPT !["main.tf"] = x], {}, DirectoryOrder) :
        x \in Texts(MagicAlphabet, MaxLen)}

\* the full clean project but for a generated variables.tf
VariableTrees ==
    {Tree(Files, [CleanContent EXCEPT !["variables.tf"] = x], {}, o) :
        x \in VariableTexts, o \in {DirectoryOrder, OtherOrder}}

OutputAlphabet == {NL, Tok("output", "id"), Tok("word", "x")}

\* the full clean project but for a generated main.tf, with or without an
\* output declaration in versions.tf
OutputTrees ==
    {Tree(Files, [CleanContent EXCEPT !["main.tf"] = x, !["versions.tf"] = y],
          {}, DirectoryOrder) :
        x \in Texts(OutputAlphabet, MaxLen),
        y \in {CleanContent["versions.tf"],
                <<Tok("word", "terraform"), NL, Tok("output", "version")>>}}

VariableNames == {"myVar", "my_var", "ID", "db"}

ResourceTexts ==
    {<<Tok("resource", "main")>>,
     <<Tok("resource", "MainRG"), NL, Tok("resource", "MainRG")>>,
     <<Tok("variable", "myVar"), NL, Tok("resource", "main"), NL,
       Tok("resource", "MainRG")>>}

\* the full clean project but for the variables declared in variables.tf
\* (with a resource behind them or not) and the resources of main.tf
NamingTrees ==
    {Tree(Files, [CleanContent EXCEPT !["variables.tf"] = Concat(x) \o y,
                                      !["main.tf"] = z],
          {}, DirectoryOrder) :
        x \in Texts({Block(n, <<Tok("default", "")>>) : n \in VariableNames},
                    MaxBody),
        y \in {<<>>, <<Tok("resource", "MainRG")>>},
        z \in ResourceTexts}

SecurityLines == {<<Tok("access_allow", "")>>, <<Tok("access_deny", "")>>,
                  <<Tok("source_address_prefix_any", "")>>,
                  <<Tok("filler", "")>>}

RECURSIVE JoinLines(_)
\* '\n'.join(lines)
JoinLines(lines) ==
    IF lines = <<>> THEN <<>>
    ELSE IF Len(lines) = 1 THEN lines[1]
    ELSE lines[1] \o <<NL>> \o JoinLines(Tail(lines))

\* the full clean project but for a main.tf of security-rule lines
SecurityTrees ==
    {Tree(Files, [CleanContent EXCEPT !["main.tf"] = JoinLines(x)], {},
          DirectoryOrder) :
        x \in Texts(SecurityLines, MaxLines)}

ReportArgs == {"none", "report.md", "unwritable"}

Scenarios ==
    ((PresenceTrees \cup UnreadableTrees \cup {MissingRoot}) \X ReportArgs)
    \cup ((MagicTrees \cup VariableTrees \cup OutputTrees \cup NamingTrees
           \cup SecurityTrees) \X {"none"})

NoOutcome ==
    [results |-> <<>>, console |-> <<>>, reportFile |-> <<>>,
     exitCode |-> NoExit, present |-> {}]

Init ==
    /\ \E sc \in Scenarios :
          /\ tree = sc[1]
          /\ args = [report |-> sc[2]]
    /\ pc = "main"
    /\ results = <<>>
    /\ tf_files = <<>>
    /\ executed = <<>>
    /\ console = <<>>
    /\ reportFile = <<>>
    /\ all_passed = <<>>
    /\ exitCode = NoExit
    /\ run = 1
    /\ edit = "none"
    /\ prev = NoOutcome

----------------------------------------------------------------------------
(* main and run_all_checks *)

\* a validator whose result list is shared with the one before it
IaCValidatorShared == [results |-> prev.results, tf_files |-> <<>>]

\* IaCValidator.__init__: the fields of a new validator
IaCValidator == [results |-> <<>>, tf_files |-> <<>>]

\* main's "except Exception": the error goes to stderr, main returns 2
Caught ==
    /\ console' = Append(console, Line("error", <<>>, <<>>))
    /\ exitCode' = 2
    /\ pc' = "done"

\* main up to the call of run_all_checks
Main ==
    /\ pc = "main"
    /\ IF ~tree.exists
         THEN /\ console' = Append(console, Line("no_path", <<>>, <<>>))
              /\ exitCode' = 2
              /\ pc' = "done"
              /\ UNCHANGED <<results, tf_files>>
         ELSE /\ results' = IaCValidator.results
              /\ tf_files' = IaCValidator.tf_files
              /\ pc' = "run_all_checks"
              /\ UNCHANGED <<console, exitCode>>
    /\ UNCHANGED <<tree, args, executed, reportFile, all_passed, run, edit, prev>>

\* the discovery result recorded as a passing one
FileDiscoveryPassed ==
    ValidationResult("File Discovery", TRUE,
        <<"No Terraform files found in", "path">>, "", 0)

\* the result recorded when glob finds no .tf file
FileDiscoveryResult ==
    ValidationResult("File Discovery", FALSE,
        <<"No Terraform files found in", "path">>, "", 0)

\* run_all_checks returning False on an empty discovery without recording
\* the "File Discovery" result
DiscoverUnrecorded ==
    /\ pc = "run_all_checks"
    /\ tf_files' = Glob(tree)
    /\ IF Glob(tree) = <<>>
         THEN /\ console' = Append(console, Line("validating", <<>>, <<>>))
              /\ all_passed' = <<FALSE>>
              /\ pc' = "returned"
              /\ UNCHANGED results
         ELSE /\ console' = console
                    \o <<Line("validating", <<>>, <<>>),
                         Line("found", <<Len(Glob(tree))>>, <<>>)>>
              /\ pc' = "check_file_structure"
              /\ UNCHANGED <<results, all_passed>>
    /\ UNCHANGED <<tree, args, executed, reportFile, exitCode, run, edit, prev>>

\* run_all_checks up to the first rule family
Discover ==
    /\ pc = "run_all_checks"
    /\ tf_files' = Glob(tree)
    /\ IF Glob(tree) = <<>>
         THEN /\ results' = Append(results, FileDiscoveryResult)
              /\ console' = Append(console, Line("validating", <<>>, <<>>))
              /\ all_passed' = <<FALSE>>
              /\ pc' = "returned"
         ELSE /\ console' = console
                    \o <<Line("validating", <<>>, <<>>),
                         Line("found", <<Len(Glob(tree))>>, <<>>)>>
              /\ pc' = "check_file_structure"
              /\ UNCHANGED <<results, all_passed>>
    /\ UNCHANGED <<tree, args, executed, reportFile, exitCode, run, edit, prev>>

\* a rule family that puts its results in front of those recorded
FamilyPrepending(name, outcome, next) ==
    /\ pc = name
    /\ executed' = Append(executed, name)
    /\ results' = outcome.res \o results
    /\ IF outcome.ok
         THEN pc' = next /\ UNCHANGED <<console, exitCode>>
         ELSE Caught
    /\ UNCHANGED <<tree, args, tf_files, reportFile, all_passed, run, edit, prev>>

\* one rule family: its results are appended; if a read raised, main
\* catches the exception
Family(name, outcome, next) ==
    /\ pc = name
    /\ executed' = Append(executed, name)
    /\ results' = results \o outcome.res
    /\ IF outcome.ok
         THEN pc' = next /\ UNCHANGED <<console, exitCode>>
         ELSE Caught
    /\ UNCHANGED <<tree, args, tf_files, reportFile, all_passed, run, edit, prev>>

CheckFileStructure ==
    Family("check_file_structure", check_file_structure(tree),
           "check_magic_numbers")

CheckMagicNumbers ==
    Family("check_magic_numbers", check_magic_numbers(tree, tf_files),
           "check_string_booleans")

CheckStringBooleans ==
    Family("check_string_booleans", check_string_booleans(tree, tf_files),
           "check_naming_conventions")

CheckNamingConventions ==
    Family("check_naming_conventions", check_naming_conventions(tree, tf_files),
           "check_documentation")

CheckDocumentation ==
    Family("check_documentation", check_documentation(tree),
           "check_security_standards")

CheckSecurityStandards ==
    Family("check_security_standards", check_security_standards(tree, tf_files),
           "check_variable_validation")

CheckVariableValidation ==
    Family("check_variable_validation", check_variable_validation(tree),
           "check_output_organization")

CheckOutputOrganization ==
    Family("check_output_organization",
           check_output_organization(tree, tf_files), "summary")

\* run_all_checks returning True as soon as some result passed
VerdictAnyPassed(rs) == CountPassed(rs) > 0

\* "return failed == 0"
Verdict(rs) == Len(rs) - CountPassed(rs) = 0

\* main's "return 0 if all_passed else 1"
ReturnCode(passed) == IF passed THEN 0 ELSE 1

\* run_all_checks from "Calculate results" to its return
Summarize ==
    /\ pc = "summary"
    /\ console' = console \o SummaryOutput(results)
    /\ all_passed' = <<Verdict(results)>>
    /\ pc' = "returned"
    /\ UNCHANGED <<tree, args, results, tf_files, executed, reportFile,
                   exitCode, run, edit, prev>>

\* main after run_all_checks returned, no report asked for
Return ==
    /\ pc = "returned"
    /\ args.report = "none"
    /\ exitCode' = ReturnCode(all_passed[1])
    /\ pc' = "done"
    /\ UNCHANGED <<tree, args, results, tf_files, executed, console,
                   reportFile, all_passed, run, edit, prev>>

\* main after run_all_checks returned, a report asked for
GenerateReport ==
    /\ pc = "returned"
    /\ args.report # "none"
    /\ IF ReportRaises(results, args.report)
         THEN Caught /\ UNCHANGED reportFile
         ELSE /\ reportFile' = <<Report(results)>>
              /\ console' = Append(console, Line("report_saved", <<>>, <<>>))
              /\ exitCode' = ReturnCode(all_passed[1])
              /\ pc' = "done"
    /\ UNCHANGED <<tree, args, results, tf_files, executed, all_passed,
                   run, edit, prev>>

----------------------------------------------------------------------------
(* A second invocation, on the same tree or after README.md was removed *)

Outcome ==
    [results |-> results, console |-> console, reportFile |-> reportFile,
     exitCode |-> exitCode, present |-> tree.present]

\* a new process: nothing of the first invocation is left but the files
\* (its report is kept in prev)
NewProcess ==
    /\ pc = "done"
    /\ run = 1
    /\ prev' = Outcome
    /\ run' = 2
    /\ pc' = "main"
    /\ results' = <<>>
    /\ tf_files' = <<>>
    /\ executed' = <<>>
    /\ console' = <<>>
    /\ all_passed' = <<>>
    /\ exitCode' = NoExit
    /\ reportFile' = <<>>
    /\ UNCHANGED args

RunAgain ==
    /\ NewProcess
    /\ UNCHANGED <<tree, edit>>

RemoveReadmeAndRunAgain ==
    /\ NewProcess
    /\ "README.md" \in tree.present
    /\ tree' = [tree EXCEPT !.present = @ \ {"README.md"},
                            !.content["README.md"] = <<>>,
                            !.unreadable = @ \ {"README.md"}]
    /\ edit' = "readme_removed"

Next ==
    \/ Main
    \/ Discover
    \/ CheckFileStructure
    \/ CheckMagicNumbers
    \/ CheckStringBooleans
    \/ CheckNamingConventions
    \/ CheckDocumentation
    \/ CheckSecurityStandards
    \/ CheckVariableValidation
    \/ CheckOutputOrganization
    \/ Summarize
    \/ Return
    \/ GenerateReport
    \/ RunAgain
    \/ RemoveReadmeAndRunAgain

Spec == Init /\ [][Next]_vars

----------------------------------------------------------------------------
(* Properties *)

Done == pc = "done"

\* the rule families in the order run_all_checks calls them
FamilyOrder == <<"check_file_structure", "check_magic_numbers",
                 "check_string_booleans", "check_naming_conventions",
                 "check_documentation", "check_security_standards",
                 "check_variable_validation", "check_output_organization">>

IsPrefix(s, t) == Len(s) <= Len(t) /\ SubSeq(t, 1, Len(s)) = s

\* main's except clause ran: the error line is on stderr
ErrorShown == \E i \in 1..Len(console) : console[i].kind = "error"

\* C1: the exit code of main is a function of the run outcome: 2, with no
\* rule executed and no result recorded, when the root path does not exist;
\* 2 when an exception was raised in the checks or the report; otherwise 0
\* iff no result fails and 1 iff some result fails.
C1_ExitCode ==
    Done =>
        /\ ~tree.exists => exitCode = 2 /\ executed = <<>> /\ results = <<>>
        /\ tree.exists /\ ErrorShown => exitCode = 2
        /\ tree.exists /\ ~ErrorShown =>
              /\ exitCode \in {0, 1}
              /\ exitCode = 0 <=> Failures(results) = <<>>
              /\ exitCode = 1 <=> Failures(results) # <<>>

C1_Witness ==
    /\ Done
    /\ tree.exists
    /\ ~ErrorShown
    /\ exitCode = 1
    /\ Len(results) > Len(Failures(results))
    /\ Failures(results) # <<>>

EmptyDiscovery == tree.exists /\ Glob(tree) = <<>>

C2_Results ==
    /\ Len(results) = 1
    /\ results[1].check_name = "File Discovery"
    /\ ~results[1].passed
    /\ results[1].file_path = ""
    /\ results[1].line_number = 0
    /\ executed = <<>>
    /\ all_passed = <<FALSE>>

\* C2 as stated: an existing root without source files gives exactly one
\* result, the failing "File Discovery" one, no rule family runs, the run is
\* reported as failed and the exit code is 1.
C2_Original == Done /\ EmptyDiscovery => C2_Results /\ exitCode = 1

\* C2 as amended: ... and the exit code is 1, unless a report was asked for
\* and writing it raises; the exit code is then 2.
C2_EmptyDiscovery ==
    Done /\ EmptyDiscovery =>
        /\ C2_Results
        /\ exitCode = IF args.report = "unwritable" THEN 2 ELSE 1

C2_Witness ==
    Done /\ EmptyDiscovery /\ exitCode = 1 /\ tree.present # {}

\* run_all_checks is past its last rule family, or main has ended
ChecksOver == pc \in {"summary", "returned", "done"}

SummaryLines(c) == SelectSeq(c, LAMBDA l : l.kind = "summary")

FailureLines(c) == SelectSeq(c, LAMBDA l : l.kind = "failure")

\* C5: in every run in which the root path exists and main returns 0 or 1,
\* the console shows the summary with the total, passed and failed counts
\* and lists every failing result in the order of the result sequence.
C5_Console ==
    Done /\ tree.exists /\ exitCode \in {0, 1} =>
        /\ SummaryLines(console)
           = <<Line("summary",
                    <<Len(results), CountPassed(results),
                      Len(results) - CountPassed(results)>>, <<>>)>>
        /\ LET fl == FailureLines(console)
           IN  [i \in 1..Len(fl) |-> fl[i].res[1]] = Failures(results)

\* run_all_checks returned a verdict to main
VerdictReturned == all_passed # <<>>

\* C6 as stated: the report is written iff a report path was supplied, the
\* root path exists and validation returned a verdict.
C6_Original ==
    Done => (reportFile # <<>>
             <=> args.report # "none" /\ tree.exists /\ VerdictReturned)

SectionEntries(report) ==
    Concat([i \in 1..Len(report.sections) |-> report.sections[i].entries])

\* the report holds every result of the sequence, and nothing else
ReportComplete(report, rs) ==
    /\ report.total = Len(rs)
    /\ report.passed + report.failed = report.total
    /\ Len(SectionEntries(report)) = Len(rs)
    /\ \A i \in 1..Len(rs) :
          \E j \in 1..Len(rs) : SectionEntries(report)[j] = rs[i]

\* C6 as amended: the report is written iff a report path was supplied, the
\* root path exists, validation returned a verdict and writing the file does
\* not raise; it is written with either verdict and on an empty discovery,
\* after all rule families (if any ran) have finished, from the complete
\* result sequence.
C6_Report ==
    /\ Done =>
          (reportFile # <<>>
           <=> /\ args.report # "none"
               /\ tree.exists
               /\ VerdictReturned
               /\ args.report # "unwritable")
    /\ reportFile # <<>> =>
          /\ Done
          /\ tf_files = <<>> \/ executed = FamilyOrder
          /\ ReportComplete(reportFile[1], results)

C6_Witness ==
    /\ reportFile # <<>>
    /\ executed = FamilyOrder
    /\ exitCode = 1
    /\ Len(results) > Len(Failures(results))

\* run_all_checks raised after discovery found source files
RaisedInChecks == Done /\ tree.exists /\ tf_files # <<>> /\ ~VerdictReturned

\* C7: when a read or a rule family fails after results were recorded, the
\* run ends with exit code 2 and the results gathered are still emitted, on
\* the console or in the requested report.
C7_PartialResults ==
    RaisedInChecks /\ results # <<>> =>
        /\ exitCode = 2
        /\ \/ reportFile # <<>>
           \/ SummaryLines(console) # <<>>
           \/ FailureLines(console) # <<>>

\* the second invocation ended, README.md having been removed from a tree
\* on which the first invocation passed every check
ReadmeRemovedFromCompliant ==
    Done /\ run = 2 /\ edit = "readme_removed" /\ prev.exitCode = 0

SectionNames == {"README: Prerequisites section",
                 "README: Quick Start or Getting Started section",
                 "README: Configuration section"}

ReadmePresenceFailing ==
    ValidationResult("Required File: README.md", FALSE,
        <<"Project documentation", "MISSING">>, "", 0)

ReadmeNotFound ==
    ValidationResult("README.md", FALSE, <<"README.md not found">>, "", 0)

\* what C8 as stated expects of a result of the first run: the presence
\* result of README.md fails, the three section results are gone, every
\* other result stays
C8_StatedChange(r) ==
    CASE r.check_name = "Required File: README.md" -> <<ReadmePresenceFailing>>
      [] r.check_name \in SectionNames -> <<>>
      [] OTHER -> <<r>>

\* what the amended C8 expects: moreover the "Example Configuration" result
\* is gone, and one failing "README.md" result stands where the results of
\* the documentation rule stood
C8_AmendedChange(r) ==
    CASE r.check_name = "Required File: README.md" -> <<ReadmePresenceFailing>>
      [] r.check_name = "README: Prerequisites section" -> <<ReadmeNotFound>>
      [] r.check_name \in SectionNames \cup {"Example Configuration"} -> <<>>
      [] OTHER -> <<r>>

\* C8 as stated: removing README.md from an otherwise-compliant tree turns
\* exactly the README.md presence result from passing to failing and drops
\* the three documentation-section results; no other result is added,
\* removed or changed.
C8_Original ==
    ReadmeRemovedFromCompliant =>
        results = Concat([i \in 1..Len(prev.results) |->
                            C8_StatedChange(prev.results[i])])

\* C8 as amended: removing README.md from an otherwise-compliant tree turns
\* exactly the README.md presence result from passing to failing, drops the
\* three documentation-section results and the "Example Configuration"
\* result, and adds one failing "README.md" result in their place; no other
\* result is added, removed or changed.
C8_ReadmeRemoved ==
    ReadmeRemovedFromCompliant =>
        /\ results = Concat([i \in 1..Len(prev.results) |->
                               C8_AmendedChange(prev.results[i])])
        /\ Len(results) = Len(prev.results) - 3
        /\ prev.results[1].passed /\ ~results[1].passed

C8_Witness ==
    /\ ReadmeRemovedFromCompliant
    /\ Len(prev.results) >= 10
    /\ \A i \in 1..Len(prev.results) : prev.results[i].passed
    /\ Len(Failures(results)) = 2

\* check_magic_numbers has returned
MagicReturned == Len(executed) >= 2 /\ ~(Len(executed) = 2 /\ Done)

MagicKinds == {"port", "zone", "wire_ip", "disk_size_gb"}

\* the flagged literals of a line
Flagged(line) == {j \in 1..Len(line) : line[j].k \in MagicKinds}

\* the "Magic Number" results for line i of file f
MagicAt(f, i) ==
    SelectSeq(results, LAMBDA r : /\ r.check_name = "Magic Number"
                                  /\ r.file_path = f
                                  /\ r.line_number = i)

\* the lines the claim is about: <<file, line number, line>> for every
\* non-comment line with a flagged literal of every discovered file other
\* than the constants file
FlaggedLines ==
    {x \in UNION {
        LET f == tf_files[n]
            lines == SplitLines(tree.content[f])
        IN  IF f = "locals_constants.tf" THEN {}
            ELSE {<<f, i, lines[i]>> : i \in 1..Len(lines)}
        : n \in 1..Len(tf_files)} :
       /\ ~(Len(x[3]) > 0 /\ x[3][1].k = "hash")
       /\ Flagged(x[3]) # {}}

RefersToConstant(line) == \E j \in 1..Len(line) : line[j].k = "local"

\* C9 as stated: a non-comment line with a flagged literal gets no result if
\* it also contains "local.", and exactly one failing "Magic Number" result,
\* with the file's relative path and the 1-based line number, if it does not.
C9_Original ==
    MagicReturned =>
        \A x \in FlaggedLines :
            IF RefersToConstant(x[3])
              THEN MagicAt(x[1], x[2]) = <<>>
              ELSE Len(MagicAt(x[1], x[2])) = 1

\* C9 as amended: once the rule has returned, such a line gets no result if
\* it also contains "local.", and otherwise one failing "Magic Number"
\* result for every flagged literal on it, each with the file's relative
\* path and the 1-based line number; comment lines and the constants file
\* get none.
C9_MagicNumbers ==
    MagicReturned =>
        /\ \A x \in FlaggedLines :
              /\ Len(MagicAt(x[1], x[2]))
                 = IF RefersToConstant(x[3]) THEN 0
                   ELSE Cardinality(Flagged(x[3]))
              /\ \A k \in 1..Len(MagicAt(x[1], x[2])) :
                    ~MagicAt(x[1], x[2])[k].passed
        /\ \A k \in 1..Len(results) :
              results[k].check_name = "Magic Number" =>
                  <<results[k].file_path, results[k].line_number>>
                     \in {<<x[1], x[2]>> : x \in FlaggedLines}

C9_Witness ==
    /\ MagicReturned
    /\ \E x \in FlaggedLines :
          /\ x[2] > 1
          /\ ~RefersToConstant(x[3])
          /\ Cardinality(Flagged(x[3])) = 2
          /\ Len(MagicAt(x[1], x[2])) = 2

\* security rule has returned and main has ended normally
SecurityReturned == Len(executed) >= 6 /\ ~(Len(executed) = 6 /\ Done)

RECURSIVE MatchingClose(_, _, _)
\* the index of the brace that closes the block opened behind header h:
\* braces are counted from `from` on, depth being the number open
MatchingClose(content, from, depth) ==
    IF from > Len(content) THEN 0
    ELSE IF content[from].k = "open"
      THEN MatchingClose(content, from + 1, depth + 1)
    ELSE IF content[from].k = "close"
      THEN IF depth = 1 THEN from
           ELSE MatchingClose(content, from + 1, depth - 1)
    ELSE MatchingClose(content, from + 1, depth)

\* the declaration block of the variable declared at h, nested blocks included
DeclarationBlock(content, h) ==
    SubSeq(content, h, MatchingClose(content, h + 1, 0))

HasTrueMarker(block) ==
    \E i \in 1..Len(block) : block[i] = Tok("sensitive", "true")

SensitiveResultsFor(name) ==
    SelectSeq(results, LAMBDA r : /\ r.check_name = "Sensitive Variable"
                                  /\ r.message[2] = name)

SensitiveDeclarations ==
    LET content == tree.content["variables.tf"]
    IN  {h \in 1..Len(content) :
            content[h].k = "variable" /\ IsSensitiveName(content[h].v)}

\* C10: a variable of variables.tf whose name contains "password", "secret"
\* or "key" and whose declaration block holds a true-valued sensitivity
\* marker, anywhere in the block (also behind a nested sub-block), gets
\* exactly one "Sensitive Variable" result, a passing one.
C10_SensitiveVariable ==
    SecurityReturned /\ "variables.tf" \in tree.present =>
        LET content == tree.content["variables.tf"]
        IN  \A h \in SensitiveDeclarations :
                HasTrueMarker(DeclarationBlock(content, h)) =>
                    /\ Len(SensitiveResultsFor(content[h].v)) = 1
                    /\ SensitiveResultsFor(content[h].v)[1].passed

\* C10, the other half: such a variable whose declaration block holds no
\* true-valued sensitivity marker gets exactly one result, a failing one.
C10_NoMarker ==
    SecurityReturned /\ "variables.tf" \in tree.present =>
        LET content == tree.content["variables.tf"]
        IN  \A h \in SensitiveDeclarations :
                ~HasTrueMarker(DeclarationBlock(content, h)) =>
                    /\ Len(SensitiveResultsFor(content[h].v)) = 1
                    /\ ~SensitiveResultsFor(content[h].v)[1].passed

\* the output rule has returned
OutputReturned == ChecksOver /\ executed = FamilyOrder

\* the discovered files the output rule scans
ScannedForOutputs ==
    {tf_files[n] : n \in 1..Len(tf_files)} \ {"outputs.tf"}

\* the lines of file f that declare an output at the start of the line
OutputDeclarations(f) ==
    LET lines == SplitLines(tree.content[f])
    IN  {i \in 1..Len(lines) : Len(lines[i]) > 0 /\ lines[i][1].k = "output"}

RECURSIVE SumOver(_, _)
SumOver(S, n) ==
    IF S = {} THEN 0
    ELSE LET f == CHOOSE x \in S : TRUE
         IN  n[f] + SumOver(S \ {f}, n)

\* the failing "Output Organization" results
OutputFailures ==
    SelectSeq(results, LAMBDA r : r.check_name = "Output Organization"
                                  /\ ~r.passed)

\* C11 as stated: when outputs.tf exists, the number of failing "Output
\* Organization" results equals the number of output declarations found in
\* the discovered files other than outputs.tf.
C11_Original ==
    OutputReturned /\ Exists(tree, "outputs.tf") =>
        Len(OutputFailures)
        = SumOver(ScannedForOutputs,
                  [f \in Files |-> Cardinality(OutputDeclarations(f))])

\* C11 as amended: when outputs.tf exists and the rule has returned, there
\* is exactly one failing "Output Organization" result for every discovered
\* file other than outputs.tf that holds at least one output declaration,
\* attributed to that file, however many declarations the file holds; a tree
\* with no stray declaration has none.
C11_StrayOutputs ==
    OutputReturned /\ Exists(tree, "outputs.tf") =>
        /\ \A f \in ScannedForOutputs :
              Len(SelectSeq(OutputFailures, LAMBDA r : r.file_path = f))
              = IF OutputDeclarations(f) # {} THEN 1 ELSE 0
        /\ \A k \in 1..Len(OutputFailures) :
              OutputFailures[k].file_path \in ScannedForOutputs
        /\ \A k \in 1..Len(results) :
              results[k].check_name = "Output Organization" =>
                  ~results[k].passed

C11_Witness ==
    /\ OutputReturned
    /\ Exists(tree, "outputs.tf")
    /\ Cardinality(OutputDeclarations("main.tf")) = 2
    /\ OutputDeclarations("versions.tf") # {}
    /\ OutputDeclarations("outputs.tf") # {}
    /\ Len(OutputFailures) = 2

\* the naming rule has returned
NamingReturned == Len(executed) >= 4 /\ ~(Len(executed) = 4 /\ Done)

\* how often the identifier n is declared with keyword k in file f
Occurrences(f, k, n) ==
    Cardinality({i \in 1..Len(tree.content[f]) :
                    tree.content[f][i] = Tok(k, n)})

\* the results of a naming check about the identifier n in file f
NamingResults(check_name, f, n, what) ==
    SelectSeq(results, LAMBDA r : /\ r.check_name = check_name
                                  /\ r.file_path = f
                                  /\ r.message[2] = n
                                  /\ r.message[3] = what)

NamedIn(f) == {tree.content[f][i].v : i \in 1..Len(tree.content[f])}

Discovered == {tf_files[n] : n \in 1..Len(tf_files)}

\* C12: the naming rule emits only failing results: for every variable
\* declared in variables.tf one "Variable Naming" result if the name has an
\* uppercase character and one if it is shorter than 3 characters; for every
\* resource declared in a discovered file one "Resource Naming" result iff
\* the name has an uppercase character; a compliant name yields none, and
\* variables declared outside variables.tf yield none.
C12_Naming ==
    NamingReturned =>
        /\ \A k \in 1..Len(results) :
              results[k].check_name \in {"Variable Naming", "Resource Naming"}
                 => /\ ~results[k].passed
                    /\ results[k].file_path \in Discovered
                    /\ results[k].check_name = "Variable Naming"
                          => results[k].file_path = "variables.tf"
        /\ \A f \in Discovered : \A n \in NamedIn(f) :
              /\ Len(NamingResults("Resource Naming", f, n, "not in snake_case"))
                 = IF HasUpper(n) THEN Occurrences(f, "resource", n) ELSE 0
              /\ f = "variables.tf" =>
                    /\ Len(NamingResults("Variable Naming", f, n,
                                         "not in snake_case"))
                       = IF HasUpper(n) THEN Occurrences(f, "variable", n)
                         ELSE 0
                    /\ Len(NamingResults("Variable Naming", f, n,
                                         "too short (< 3 chars)"))
                       = IF NameLen(n) < 3 THEN Occurrences(f, "variable", n)
                         ELSE 0

C12_Witness ==
    /\ NamingReturned
    /\ Occurrences("variables.tf", "variable", "myVar") = 1
    /\ Occurrences("variables.tf", "variable", "db") = 1
    /\ Occurrences("main.tf", "variable", "myVar") = 1
    /\ Occurrences("main.tf", "resource", "MainRG") = 1
    /\ Len(SelectSeq(results,
                     LAMBDA r : r.check_name = "Variable Naming")) = 2
    /\ Len(SelectSeq(results,
                     LAMBDA r : r.check_name = "Resource Naming")) = 1

\* the required-file rule has run
FileStructureReturned == Len(executed) >= 1

FileStructureNames ==
    <<"Required File: README.md", "Required File: variables.tf",
      "Required File: outputs.tf", "Required File: versions.tf",
      "Required File: .gitignore", "Constants File">>

\* the files whose presence makes the i-th result pass
FileStructureFiles ==
    <<{"README.md"}, {"variables.tf"}, {"outputs.tf"},
      {"versions.tf", "provider.tf"}, {".gitignore"},
      {"locals_constants.tf"}>>

\* C13: for a tree with a discovered source file the required-file rule
\* emits exactly six results, in the order README.md, variables.tf,
\* outputs.tf, versions.tf, .gitignore, constants file, each with empty file
\* path and no line number; each passes iff its file exists under the root,
\* the fourth iff versions.tf or provider.tf exists.
C13_FileStructure ==
    /\ FileStructureReturned =>
          /\ tf_files # <<>>
          /\ Len(results) >= 6
          /\ \A i \in 1..6 :
                /\ results[i].check_name = FileStructureNames[i]
                /\ results[i].file_path = ""
                /\ results[i].line_number = 0
                /\ results[i].passed
                   <=> FileStructureFiles[i] \cap tree.present # {}
          /\ \A k \in 7..Len(results) :
                results[k].check_name \notin
                   {FileStructureNames[i] : i \in 1..6}
    /\ pc = "check_magic_numbers" => Len(results) = 6

C13_Witness ==
    /\ pc = "check_magic_numbers"
    /\ "versions.tf" \notin tree.present
    /\ "provider.tf" \in tree.present
    /\ results[4].passed
    /\ ~results[1].passed
    /\ ~results[6].passed
    /\ results[3].passed

\* the variable-validation rule has returned
ValidationReturned == Len(executed) >= 7 /\ ~(Len(executed) = 7 /\ Done)

VariableDeclarations ==
    LET content == tree.content["variables.tf"]
    IN  {h \in 1..Len(content) : content[h].k = "variable"}

ValidationResultsFor(name) ==
    SelectSeq(results, LAMBDA r : /\ r.check_name = "Variable Validation"
                                  /\ r.message[2] = name)

\* C14: a variable declared in variables.tf gets a failing "Variable
\* Validation" result iff its declaration block, nested blocks included,
\* holds no default and no validation sub-block: a default anywhere in the
\* block (also behind a nested brace-delimited type) exempts the variable,
\* and so does a validation sub-block.
C14_VariableValidation ==
    ValidationReturned /\ "variables.tf" \in tree.present =>
        LET content == tree.content["variables.tf"]
        IN  \A h \in VariableDeclarations :
                LET block == DeclarationBlock(content, h)
                    required == /\ ~HasKind(block, {"default"})
                                /\ ~HasKind(block, {"validation"})
                    rs == ValidationResultsFor(content[h].v)
                IN  /\ Len(rs) = IF required THEN 1 ELSE 0
                    /\ \A k \in 1..Len(rs) : ~rs[k].passed

\* the documentation rule has returned
DocumentationReturned == Len(executed) >= 5 /\ ~(Len(executed) = 5 /\ Done)

\* the results the documentation rule records
DocumentationRecorded ==
    SelectSeq(results,
              LAMBDA r : r.check_name \in SectionNames
                            \cup {"Example Configuration", "README.md"})

\* the README holds one of the keywords, whatever its case
ReadmeHolds(keywords) ==
    \E i \in 1..Len(tree.content["README.md"]) :
        Lower(tree.content["README.md"][i].v) \in keywords

\* C15: when README.md exists the documentation rule emits exactly four
\* results in order: the three section results, passing iff the file holds
\* (case-insensitively) "prerequisites", a getting-started or quick-start
\* keyword, and "configuration", then "Example Configuration", passing iff
\* terraform.tfvars.example exists; when README.md is absent it emits exactly
\* one failing result.
C15_Documentation ==
    DocumentationReturned =>
        LET d == DocumentationRecorded
        IN  IF Exists(tree, "README.md")
              THEN /\ Len(d) = 4
                   /\ d[1].check_name = "README: Prerequisites section"
                   /\ d[1].passed <=> ReadmeHolds({"prerequisites"})
                   /\ d[2].check_name
                      = "README: Quick Start or Getting Started section"
                   /\ d[2].passed
                      <=> ReadmeHolds({"quick start", "getting started"})
                   /\ d[3].check_name = "README: Configuration section"
                   /\ d[3].passed <=> ReadmeHolds({"configuration"})
                   /\ d[4].check_name = "Example Configuration"
                   /\ d[4].passed <=> Exists(tree, "terraform.tfvars.example")
              ELSE Len(d) = 1 /\ ~d[1].passed

RECURSIVE LineStart(_, _)
\* the index in the text of the first token of line i (lines as split)
LineStart(lines, i) ==
    IF i = 1 THEN 1 ELSE LineStart(lines, i - 1) + Len(lines[i - 1]) + 1

\* "allow" occurs in the window of at most 200 characters that ends where
\* the token at index p begins
AllowInWindow(content, p) ==
    \E q \in 1..(p - 1) :
        /\ ContainsAllow(content[q])
        /\ Offset(content, p) - Offset(content, q) <= LookbackWindow

\* the wildcard lines of the discovered files: <<file, line number>>
WildcardLines ==
    UNION {LET lines == SplitLines(tree.content[f])
           IN  {<<f, i>> : i \in {j \in 1..Len(lines) :
                                     HasWildcardSource(lines[j])}}
           : f \in Discovered}

PermissiveAt(f, i) ==
    SelectSeq(results,
              LAMBDA r : /\ r.check_name = "Overly Permissive Security Rule"
                         /\ r.file_path = f
                         /\ r.line_number = i)

\* C16: a line that sets source_address_prefix to "*" gets a failing
\* "Overly Permissive Security Rule" result with its line number iff "allow"
\* occurs within the 200 characters that precede that very line; a wildcard
\* line of a deny rule with no "allow" in its window is never flagged, also
\* when an identical line occurs earlier in the file.
C16_WildcardSource ==
    SecurityReturned =>
        \A x \in WildcardLines :
            LET content == tree.content[x[1]]
                at == LineStart(SplitLines(content), x[2])
            IN  /\ Len(PermissiveAt(x[1], x[2]))
                   = IF AllowInWindow(content, at) THEN 1 ELSE 0
                /\ \A k \in 1..Len(PermissiveAt(x[1], x[2])) :
                      ~PermissiveAt(x[1], x[2])[k].passed

\* C16, the deny half: a wildcard line with no "allow" in the window that
\* precedes it is never flagged, also when an identical line occurs earlier.
C16_DenyNotFlagged ==
    SecurityReturned =>
        \A x \in WildcardLines :
            LET content == tree.content[x[1]]
                at == LineStart(SplitLines(content), x[2])
            IN  ~AllowInWindow(content, at) => PermissiveAt(x[1], x[2]) = <<>>

\* C17: within one run the result sequence only grows at its end: a result
\* once recorded keeps its position and all its fields in every later state
\* of the run; no step removes, reorders, merges or rewrites a recorded
\* result, and duplicates stay.
C17_AppendOnly == [][run' = run => IsPrefix(results, results')]_vars

C17_Witness ==
    /\ Done
    /\ executed = FamilyOrder
    /\ \E i, j \in 1..Len(results) : i < j /\ results[i] = results[j]
    /\ \E i \in 1..Len(results) : results[i].passed

\* main is where generate_report can be called: run_all_checks returned
ReportCanBeGenerated == pc = "returned"

\* C18: whenever the report can be generated (run_all_checks has returned,
\* with either verdict) the result sequence holds at least one result, so
\* the pass rate passed/total is never computed with total = 0: the
\* empty-discovery run has total = 1, a run with discovered files has
\* total >= 6, and a report written carries that total.
C18_TotalPositive ==
    /\ ReportCanBeGenerated =>
          /\ VerdictReturned
          /\ Len(results) >= 1
          /\ tf_files = <<>> => Len(results) = 1
          /\ tf_files # <<>> => Len(results) >= 6
    /\ reportFile # <<>> =>
          /\ reportFile[1].total = Len(results)
          /\ reportFile[1].total >= 1
    /\ Done /\ args.report = "report.md" /\ VerdictReturned =>
          reportFile # <<>>

C18_Witness ==
    /\ Done
    /\ reportFile # <<>>
    /\ tf_files = <<>>
    /\ reportFile[1].total = 1
    /\ reportFile[1].pass_rate = 0
    /\ tree.present # {}
    /\ exitCode = 1

====
